---- MODULE Spec2Model ----
(***************************************************************************)
(* MtProtoSender (telethon/network/mtproto_sender.py) as a state machine.  *)
(*                                                                         *)
(* Threads: two callers, each calling send() once with its own request,    *)
(* and one receiver running receive().  send() runs under self._lock;      *)
(* receive() and the handlers it calls take no lock (only the send() that  *)
(* _handle_bad_server_salt re-enters does).  Every statement that touches  *)
(* the transport or the shared lists is a step of its own, so the          *)
(* interleavings the Python threads can produce are the interleavings of   *)
(* the actions below.                                                      *)
(*                                                                         *)
(* Message ids are scaled: the seconds field of a msg-id is everything     *)
(* above its two low bits (x * 4 in place of x << 32, y \div 4 in place of *)
(* y >> 32).  Client ids are 0 mod 4, server ids are 1 mod 4.              *)
(***************************************************************************)
EXTENDS Integers, Sequences, FiniteSets, TLC

\* ------------------------------------------------------------ bounds
MaxNow == 2        \* the client clock runs from 1 up to MaxNow
MaxFrames == 2     \* frames the transport delivers while send() may be running
MaxSeqFrames == 1  \* frames the transport delivers to a single-threaded client

\* ------------------------------------------------------------ fixed inputs
Callers == {"c1", "c2"}
Receiver == "rx"
Threads == Callers \cup {Receiver}
Requests == {"r1", "r2"}
NoRequest == "none"
NoThread == "none"

\* The threads connect() can start for _recv_thread_impl.
Tasks == {"t1", "t2"}

\* _decode_msg: a body of fewer bytes cannot be decoded.
MinBodyLen == 8

\* The request each caller passes to send().
RequestOf(c) == IF c = "c1" THEN "r1" ELSE "r2"

\* Request.content_related: r1 is an ordinary RPC call, r2 a ping-like
\* service request.
ContentRelated(r) == r = "r1"

\* A msg-id no request of this connection carries (a request of a previous
\* connection session).
LostMsgId == 4 * 100

\* Salts (opaque 64-bit values): the session starts with OldSalt,
\* bad_server_salt carries NewSalt.
OldSalt == "salt0"
NewSalt == "salt1"

\* rpc_error inputs (code, message): one translated to a plain RPCError and
\* one to InvalidDCError.
RpcErrorMessage(code) == IF code = 303 THEN "PHONE_MIGRATE_2" ELSE "FLOOD_WAIT_3"

VARIABLES
    \* Session (telethon/tl/session.py)
    salt, time_offset, last_msg_id, sequence, saved,
    \* MtProtoSender fields
    need_confirmation, pending_receive, lock, logging_out, unhandled_callbacks,
    \* Request objects' fields
    request_msg_id, confirm_received, response, error,
    \* the connection: is_connected(), and every frame handed to
    \* connection.send, in the order it was handed over
    connected, wire,
    \* the client clock, the server's msg-id counter, frames read so far
    now, srv_t, frames,
    \* per thread: position, send()'s argument, the packet _send_packet has
    \* built, where to continue after _send_acknowledges / send(), the
    \* exception the last call ended with
    pc, sreq, pkt, after_ack, after_send, exc,
    \* receiver: the messages still to dispatch, the request and error
    \* _handle_rpc_result holds while it acknowledges, the container
    \* reader's position, the handlers entered by the current receive(),
    \* the objects passed to the unhandled callbacks
    todo, cur, rpos, log, delivered,
    \* background reading: the constant_read flag, self._recv_thread, where
    \* each thread started by connect() stands in _recv_thread_impl, and
    \* the exception its current receive() ended with
    constant_read, recv_thread, bg, task_exc

sessionVars == <<salt, time_offset, last_msg_id, sequence, saved>>
senderVars == <<need_confirmation, pending_receive, lock, logging_out, unhandled_callbacks>>
requestVars == <<request_msg_id, confirm_received, response, error>>
envVars == <<connected, wire, now, srv_t, frames>>
threadVars == <<pc, sreq, pkt, after_ack, after_send, exc>>
rxVars == <<todo, cur, rpos, log, delivered>>
bgVars == <<constant_read, recv_thread, bg, task_exc>>
vars == <<sessionVars, senderVars, requestVars, envVars, threadVars, rxVars, bgVars>>

\* ------------------------------------------------------------ helpers
\* A frame as _send_packet builds it; by and nth record the thread that
\* built it and how many frames receive() had read by then.
NoPkt == [kind |-> "none", msg_id |-> 0, seq |-> 0, salt |-> "",
          ids |-> <<>>, req |-> NoRequest, by |-> NoThread, nth |-> 0]
NoExc == [type |-> "none", code |-> 0]
NoCur == [req |-> NoRequest, err |-> [type |-> "none", code |-> 0, message |-> ""]]
FreeLock == [owner |-> NoThread, count |-> 0]

Range(s) == {s[i] : i \in DOMAIN s}

\* How many times v occurs in the sequence s.
Count(s, v) == Cardinality({i \in DOMAIN s : s[i] = v})

\* next(r for r in self._pending_receive if r.request_msg_id == id), or
\* NoRequest on StopIteration.
FindPending(id) ==
    LET hits == {i \in DOMAIN pending_receive :
                    request_msg_id[pending_receive[i]] = id}
    IN  IF hits = {} THEN NoRequest
        ELSE pending_receive[CHOOSE i \in hits : \A j \in hits : i <= j]

\* ------------------------------------------------------------ Session
\* Session.get_new_msg_id: the clock, corrected by time_offset, in the
\* seconds field; bumped past last_msg_id when it is not greater.
NewMsgId ==
    LET fresh == (now + time_offset) * 4
    IN  IF last_msg_id >= fresh THEN last_msg_id + 4 ELSE fresh

\* Session.generate_sequence(content_related): the value returned.
SequenceFor(content_related) ==
    IF content_related THEN sequence * 2 + 1 ELSE sequence * 2

\* Session.generate_sequence(content_related): the counter afterwards.
SequenceAfter(content_related) ==
    IF content_related THEN sequence + 1 ELSE sequence

\* Session.update_time_offset(correct_msg_id): the new time_offset.
TimeOffsetFor(correct_msg_id) == (correct_msg_id \div 4) - now

\* rpc_message_to_error(code, message).
RpcMessageToError(code, message) ==
    IF code = 303
    THEN [type |-> "InvalidDCError", code |-> code, message |-> message]
    ELSE [type |-> "RPCError", code |-> code, message |-> message]

\* ------------------------------------------------------------ lock
\* Mutant of CanAcquire: the lock excludes nobody.
CanAcquireAny(t) == TRUE

\* RLock.acquire by t does not block.
CanAcquire(t) == lock.owner \in {NoThread, t}

Acquired(t) == [owner |-> t, count |-> lock.count + 1]

Released(t) ==
    IF lock.owner # t THEN lock
    ELSE IF lock.count > 1 THEN [owner |-> t, count |-> lock.count - 1]
    ELSE FreeLock

\* Mutant of Raise: the exception leaves send() with the lock still held.
RaiseHolding(t, e) ==
    /\ lock' = lock
    /\ pc' = [pc EXCEPT ![t] = "idle"]
    /\ exc' = [exc EXCEPT ![t] = e]
    /\ pkt' = [pkt EXCEPT ![t] = NoPkt]
    /\ todo' = IF t = Receiver THEN <<>> ELSE todo
    /\ cur' = IF t = Receiver THEN NoCur ELSE cur

\* An exception e leaves the call thread t is in: the with-block of send()
\* releases the lock if t holds it, receive() abandons the rest of the
\* frame, and the thread is back at its caller.
Raise(t, e) ==
    /\ lock' = Released(t)
    /\ pc' = [pc EXCEPT ![t] = "idle"]
    /\ exc' = [exc EXCEPT ![t] = e]
    /\ pkt' = [pkt EXCEPT ![t] = NoPkt]
    /\ todo' = IF t = Receiver THEN <<>> ELSE todo
    /\ cur' = IF t = Receiver THEN NoCur ELSE cur

\* ------------------------------------------------------------ Init
\* The sender after __init__ and connect(), once its creator has pointed
\* unhandled_callbacks at its list of handlers (callbacks: the list is not
\* empty).
InitWith(callbacks) ==
    /\ salt = OldSalt
    /\ time_offset = 0
    /\ last_msg_id = 0
    /\ sequence = 0
    /\ saved = 0
    /\ need_confirmation = <<>>
    /\ pending_receive = <<>>
    /\ lock = FreeLock
    /\ logging_out = FALSE
    /\ unhandled_callbacks = callbacks
    /\ request_msg_id = [r \in Requests |-> 0]
    /\ confirm_received = [r \in Requests |-> FALSE]
    /\ response = [r \in Requests |-> "none"]
    /\ error = [r \in Requests |-> NoCur.err]
    /\ connected = TRUE
    /\ wire = <<>>
    /\ now = 1
    /\ srv_t = 3
    /\ frames = 0
    /\ pc = [t \in Threads |-> "idle"]
    /\ sreq = [t \in Threads |-> NoRequest]
    /\ pkt = [t \in Threads |-> NoPkt]
    /\ after_ack = [t \in Threads |-> "idle"]
    /\ after_send = [t \in Threads |-> "idle"]
    /\ exc = [t \in Threads |-> NoExc]
    /\ todo = <<>>
    /\ cur = NoCur
    /\ rpos = 0
    /\ log = <<>>
    /\ delivered = <<>>

\* constant_read is False: connect() starts no thread, the application
\* calls receive() itself.
ManualRead ==
    /\ constant_read = FALSE
    /\ recv_thread = NoThread
    /\ bg = [t \in Tasks |-> "unborn"]
    /\ task_exc = [t \in Tasks |-> NoExc]

\* constant_read is True and connect() has started the first thread.
BackgroundRead ==
    /\ constant_read = TRUE
    /\ recv_thread = "t1"
    /\ bg = [t \in Tasks |-> IF t = "t1" THEN "loop" ELSE "unborn"]
    /\ task_exc = [t \in Tasks |-> NoExc]

\* ------------------------------------------------------------ send()
\* A caller calls send(request): it is now waiting for self._lock.
Call(c) ==
    /\ c \in Callers
    /\ pc[c] = "idle"
    /\ sreq[c] = NoRequest
    /\ pc' = [pc EXCEPT ![c] = "s_lock"]
    /\ sreq' = [sreq EXCEPT ![c] = RequestOf(c)]
    /\ after_send' = [after_send EXCEPT ![c] = "idle"]
    /\ exc' = [exc EXCEPT ![c] = NoExc]
    /\ UNCHANGED <<bgVars, sessionVars, senderVars, requestVars, envVars, pkt, after_ack, rxVars>>

\* send(): with self._lock, then on to self._send_acknowledges().
SendAcquire(t) ==
    /\ pc[t] = "s_lock"
    /\ CanAcquire(t)
    /\ lock' = Acquired(t)
    /\ pc' = [pc EXCEPT ![t] = "ack"]
    /\ after_ack' = [after_ack EXCEPT ![t] = "s_req"]
    /\ UNCHANGED <<bgVars, sessionVars, need_confirmation, pending_receive, logging_out, unhandled_callbacks,
                   requestVars, envVars, sreq, pkt, after_send, exc, rxVars>>

\* Mutant of SendAcknowledgesBuild: the queue is not tested, an ack frame is
\* built for an empty queue too.
SendAcknowledgesAlways(t) ==
    /\ pc[t] = "ack"
    /\ pkt' = [pkt EXCEPT ![t] =
            [kind |-> "ack", msg_id |-> NewMsgId, seq |-> SequenceFor(FALSE),
             salt |-> salt, ids |-> need_confirmation,
             req |-> NoRequest, by |-> t, nth |-> frames]]
    /\ last_msg_id' = NewMsgId
    /\ sequence' = SequenceAfter(FALSE)
    /\ pc' = [pc EXCEPT ![t] = "ack_write"]
    /\ UNCHANGED <<bgVars, salt, time_offset, saved, senderVars, requestVars, envVars,
                   sreq, after_ack, after_send, exc, rxVars>>

\* _send_acknowledges up to the transport write: if the queue is not empty,
\* MsgsAck over it is serialised and _send_packet stamps it (msgs_ack is not
\* content-related) and builds the frame; otherwise nothing is sent.
SendAcknowledgesBuild(t) ==
    /\ pc[t] = "ack"
    /\ IF need_confirmation # <<>>
       THEN /\ pkt' = [pkt EXCEPT ![t] =
                    [kind |-> "ack", msg_id |-> NewMsgId, seq |-> SequenceFor(FALSE),
                     salt |-> salt, ids |-> need_confirmation,
                     req |-> NoRequest, by |-> t, nth |-> frames]]
            /\ last_msg_id' = NewMsgId
            /\ sequence' = SequenceAfter(FALSE)
            /\ pc' = [pc EXCEPT ![t] = "ack_write"]
       ELSE /\ pc' = [pc EXCEPT ![t] = after_ack[t]]
            /\ UNCHANGED <<pkt, last_msg_id, sequence>>
    /\ UNCHANGED <<bgVars, salt, time_offset, saved, senderVars, requestVars, envVars,
                   sreq, after_ack, after_send, exc, rxVars>>

\* connection.send(frame) at the end of _send_packet, for the ack frame.
SendAcknowledgesWrite(t) ==
    /\ pc[t] = "ack_write"
    /\ IF connected
       THEN /\ wire' = Append(wire, pkt[t])
            /\ pc' = [pc EXCEPT ![t] = "ack_del"]
            /\ pkt' = [pkt EXCEPT ![t] = NoPkt]
            /\ UNCHANGED <<lock, exc, todo, cur>>
       ELSE /\ Raise(t, [type |-> "ConnectionError", code |-> 0])
            /\ UNCHANGED wire
    /\ UNCHANGED <<bgVars, sessionVars, need_confirmation, pending_receive, logging_out, unhandled_callbacks,
                   requestVars, connected, now, srv_t, frames,
                   sreq, after_ack, after_send, rpos, log, delivered>>

\* del self._need_confirmation[:]
SendAcknowledgesClear(t) ==
    /\ pc[t] = "ack_del"
    /\ need_confirmation' = <<>>
    /\ pc' = [pc EXCEPT ![t] = after_ack[t]]
    /\ UNCHANGED <<bgVars, sessionVars, pending_receive, lock, logging_out, unhandled_callbacks, requestVars,
                   envVars, sreq, pkt, after_ack, after_send, exc, rxVars>>

\* _send_packet(packet, request) up to the transport write: the request gets
\* its msg-id and the frame is built with the session's salt and sequence.
SendPacketBuild(t) ==
    /\ pc[t] = "s_req"
    /\ request_msg_id' = [request_msg_id EXCEPT ![sreq[t]] = NewMsgId]
    /\ last_msg_id' = NewMsgId
    /\ sequence' = SequenceAfter(ContentRelated(sreq[t]))
    /\ pkt' = [pkt EXCEPT ![t] =
            [kind |-> "req", msg_id |-> NewMsgId,
             seq |-> SequenceFor(ContentRelated(sreq[t])),
             salt |-> salt, ids |-> <<>>, req |-> sreq[t], by |-> t,
             nth |-> frames]]
    /\ pc' = [pc EXCEPT ![t] = "s_write"]
    /\ UNCHANGED <<bgVars, salt, time_offset, saved, senderVars, confirm_received, response, error,
                   envVars, sreq, after_ack, after_send, exc, rxVars>>

\* connection.send(frame) at the end of _send_packet, for the request frame.
SendPacketWrite(t) ==
    /\ pc[t] = "s_write"
    /\ IF connected
       THEN /\ wire' = Append(wire, pkt[t])
            /\ pc' = [pc EXCEPT ![t] = "s_append"]
            /\ pkt' = [pkt EXCEPT ![t] = NoPkt]
            /\ UNCHANGED <<lock, exc, todo, cur>>
       ELSE /\ Raise(t, [type |-> "ConnectionError", code |-> 0])
            /\ UNCHANGED wire
    /\ UNCHANGED <<bgVars, sessionVars, need_confirmation, pending_receive, logging_out, unhandled_callbacks,
                   requestVars, connected, now, srv_t, frames,
                   sreq, after_ack, after_send, rpos, log, delivered>>

\* self._pending_receive.append(request)
SendAppend(t) ==
    /\ pc[t] = "s_append"
    /\ pending_receive' = Append(pending_receive, sreq[t])
    /\ pc' = [pc EXCEPT ![t] = "s_save"]
    /\ UNCHANGED <<bgVars, sessionVars, need_confirmation, lock, logging_out, unhandled_callbacks, requestVars,
                   envVars, sreq, pkt, after_ack, after_send, exc, rxVars>>

\* self.session.save(), then the with-block releases the lock and send()
\* returns to whoever called it.
SendSaveRelease(t) ==
    /\ pc[t] = "s_save"
    /\ saved' = saved + 1
    /\ lock' = Released(t)
    /\ pc' = [pc EXCEPT ![t] = after_send[t]]
    /\ UNCHANGED <<bgVars, salt, time_offset, last_msg_id, sequence, need_confirmation,
                   pending_receive, logging_out, unhandled_callbacks, requestVars, envVars,
                   sreq, pkt, after_ack, after_send, exc, rxVars>>

\* ------------------------------------------------------------ inbound messages
\* A message body as receive() sees it after _decode_msg: its constructor k,
\* the msg-id it echoes (req), one more field x (rpc_result: 0 for a plain
\* result, 1 for a gzip-packed result, otherwise the rpc_error code;
\* bad_msg_notification: the error_code), and what it wraps (sub).
Leaf(k, req, x) == [k |-> k, req |-> req, x |-> x, sub |-> <<>>]
RpcResult(req, x) == Leaf("rpc_result", req, x)
Pong(req) == Leaf("pong", req, 0)
BadServerSalt(req) == Leaf("bad_server_salt", req, 0)
BadMsgNotification(code) == Leaf("bad_msg_notification", LostMsgId, code)
MsgsAckOf(id) == Leaf("msgs_ack", id, 0)
TLObject == Leaf("tlobject", 0, 0)
UnknownObject == Leaf("unknown", 0, 0)
GzipPacked(b) == [k |-> "gzip_packed", req |-> 0, x |-> 0, sub |-> <<b>>]
MsgContainer(bs) == [k |-> "msg_container", req |-> 0, x |-> 0, sub |-> bs]

\* Serialised length of a body, in bytes (constructor code included).
RECURSIVE BodyLen(_)
RECURSIVE ItemsLen(_)
BodyLen(b) ==
    CASE b.k = "rpc_result" ->
            IF b.x \in {0, 1} THEN 4 + 8 + 8 ELSE 4 + 8 + 4 + 4 + 16
      [] b.k = "pong" -> 4 + 8 + 8
      [] b.k = "bad_server_salt" -> 4 + 8 + 4 + 4 + 8
      [] b.k = "bad_msg_notification" -> 4 + 8 + 4 + 4
      [] b.k = "msgs_ack" -> 4 + 4 + 4 + 8
      [] b.k = "gzip_packed" -> 4 + 4 + BodyLen(b.sub[1])
      [] b.k = "msg_container" -> 4 + 4 + ItemsLen(b.sub)
      [] OTHER -> 8
ItemsLen(bs) ==
    IF bs = <<>> THEN 0 ELSE 8 + 4 + 4 + BodyLen(Head(bs)) + ItemsLen(Tail(bs))

\* The bytes of a container's inner messages in front of the i-th body:
\* the container's code and size, the earlier messages, the i-th header.
BeginOf(bs, i) == 4 + 4 + ItemsLen(SubSeq(bs, 1, i - 1)) + 8 + 4 + 4

\* The msg-ids the server gives a frame: the inner messages of a container
\* get the ids before the container's own.
InnerMsgId(outer, n, i) == outer - 4 * (n - i + 1)

\* Request msg-ids the server may echo: the ones it has seen on the wire
\* that their requests still carry, and one no request carries.
EchoIds == {wire[i].msg_id : i \in {j \in DOMAIN wire :
                /\ wire[j].kind = "req"
                /\ request_msg_id[wire[j].req] = wire[j].msg_id}}
           \cup {LostMsgId}

\* Frames offered while send() may be running: bodies that wrap nothing,
\* one gzip_packed and one container.
ConcFrames ==
    {RpcResult(r, x) : r \in EchoIds, x \in {0, 420}}
    \cup {Pong(r) : r \in EchoIds}
    \cup {BadServerSalt(r) : r \in EchoIds}
    \cup {BadMsgNotification(c) : c \in {16, 32}}
    \cup {MsgsAckOf(LostMsgId), TLObject, UnknownObject, GzipPacked(TLObject),
          MsgContainer(<<TLObject, UnknownObject>>)}

\* What a container's inner messages are drawn from.  A pong is left out:
\* _handle_pong leaves the 8 bytes of ping_id unread and returns True, so
\* the container would read its next header from the middle of the pong.
ItemBodies ==
    {TLObject, UnknownObject, BadMsgNotification(16), BadMsgNotification(32),
     RpcResult(LostMsgId, 0)}

\* Frames offered to a single-threaded client: every constructor, every
\* branch of _handle_rpc_result, gzip_packed around handled and unhandled
\* content, and containers of three inner messages.
SeqFrames ==
    {RpcResult(r, x) : r \in EchoIds, x \in {0, 1, 420, 303}}
    \cup {Pong(r) : r \in EchoIds}
    \cup {BadServerSalt(r) : r \in EchoIds}
    \cup {BadMsgNotification(c) : c \in {16, 17, 32}}
    \cup {MsgsAckOf(r) : r \in EchoIds}
    \cup {TLObject, UnknownObject}
    \cup {GzipPacked(b) : b \in {TLObject, UnknownObject, BadMsgNotification(16),
                                  BadMsgNotification(32)}
                                 \cup {RpcResult(r, 0) : r \in EchoIds}}
    \cup {MsgContainer(<<a, b, c>>) : a \in ItemBodies, b \in ItemBodies, c \in ItemBodies}
    \cup {MsgContainer(<<TLObject, GzipPacked(RpcResult(r, 0)), RpcResult(LostMsgId, 0)>>) :
            r \in EchoIds}
    \cup {MsgContainer(<<TLObject, RpcResult(LostMsgId, 420), TLObject>>)}

\* ------------------------------------------------------------ receive()
\* The message _process_msg is about to be called with.
Msg == Head(todo)

\* _process_msg is entered for a message whose constructor is k; inside a
\* container the reader stands right behind the message's header.
Dispatching(k) ==
    /\ pc[Receiver] = "rx_proc"
    /\ todo # <<>>
    /\ Msg.body.k = k
    /\ Msg.ctx = "item" => rpos + 8 + 4 + 4 = Msg.begin

\* The handler returned: receive() goes on with the messages left, or
\* returns.
Return(rest) ==
    /\ todo' = rest
    /\ pc' = [pc EXCEPT ![Receiver] = IF rest = <<>> THEN "idle" ELSE "rx_proc"]

\* Mutant of ReaderAfter: the container leaves the reader where the handler
\* left it, whatever the handler returned.
ReaderAfterKeep(ret, read) ==
    IF Msg.ctx = "item" THEN Msg.begin + read ELSE rpos

\* The container reader after a handler that read `read` bytes returned
\* ret: _handle_container sets it to begin + inner_length unless ret is True.
ReaderAfter(ret, read) ==
    IF Msg.ctx = "item"
    THEN IF ret = "True" THEN Msg.begin + read ELSE Msg.begin + Msg.len
    ELSE rpos

\* self._need_confirmation.append(msg_id), first thing in _process_msg.
Confirm(msg_id) == Append(need_confirmation, msg_id)

\* The record of a handler entered: the message, what the handler returns
\* (or that it raises), and the pending request it found.
Logged(ret, found) ==
    Append(log, [msg_id |-> Msg.msg_id, k |-> Msg.body.k, ctx |-> Msg.ctx,
                 req |-> Msg.body.req, x |-> Msg.body.x,
                 ret |-> ret, found |-> found])

\* receive(): connection.recv() yields a frame, _decode_msg opens it.  With
\* constant_read the caller is a thread of _recv_thread_impl blocked in
\* connection.recv(), and no other thread is inside _process_msg.
Receive(bodies, max) ==
    /\ pc[Receiver] = "idle"
    /\ connected
    /\ frames < max
    /\ IF constant_read
       THEN /\ \A u \in Tasks : bg[u] # "run"
            /\ \E t \in Tasks :
                  /\ bg[t] = "recv"
                  /\ bg' = [bg EXCEPT ![t] = "run"]
       ELSE UNCHANGED bg
    /\ \E b \in bodies :
        LET n == IF b.k = "msg_container" THEN Len(b.sub) ELSE 0
            id == (srv_t + n) * 4 + 1
        IN  /\ todo' = <<[msg_id |-> id, body |-> b, ctx |-> "top",
                          begin |-> 0, len |-> BodyLen(b)]>>
            /\ srv_t' = srv_t + n + 1
    /\ frames' = frames + 1
    /\ pc' = [pc EXCEPT ![Receiver] = "rx_proc"]
    /\ exc' = [exc EXCEPT ![Receiver] = NoExc]
    /\ rpos' = 0
    /\ log' = <<>>
    /\ delivered' = <<>>
    /\ UNCHANGED <<constant_read, recv_thread, task_exc,
                   sessionVars, senderVars, requestVars, connected, wire, now,
                   sreq, pkt, after_ack, after_send, cur>>

\* _handle_rpc_result.  An rpc_error is queued for acknowledgement under
\* the msg-id of the request it answers and _send_acknowledges is entered;
\* a result goes to the pending request, if there is one.
HandleRpcResult ==
    /\ Dispatching("rpc_result")
    /\ LET request == FindPending(Msg.body.req)
           code == Msg.body.x
       IN  IF code \notin {0, 1}
           THEN /\ need_confirmation' = Append(Confirm(Msg.msg_id), Msg.body.req)
                /\ cur' = [req |-> request,
                           err |-> RpcMessageToError(code, RpcErrorMessage(code))]
                /\ pc' = [pc EXCEPT ![Receiver] = "ack"]
                /\ after_ack' = [after_ack EXCEPT ![Receiver] = "rx_err"]
                /\ todo' = Tail(todo)
                /\ rpos' = ReaderAfter("None", Msg.len)
                /\ log' = Logged("None", request)
                /\ UNCHANGED requestVars
           ELSE IF request # NoRequest
           THEN /\ need_confirmation' = Confirm(Msg.msg_id)
                /\ response' = [response EXCEPT ![request] = "result"]
                /\ confirm_received' = [confirm_received EXCEPT ![request] = TRUE]
                /\ Return(Tail(todo))
                /\ rpos' = ReaderAfter("True", Msg.len)
                /\ log' = Logged("True", request)
                /\ UNCHANGED <<request_msg_id, error, cur, after_ack>>
           ELSE /\ need_confirmation' = Confirm(Msg.msg_id)
                /\ Return(Tail(todo))
                /\ rpos' = ReaderAfter("False", 4 + 8 + 4)
                /\ log' = Logged("False", request)
                /\ UNCHANGED <<requestVars, cur, after_ack>>
    /\ UNCHANGED <<bgVars, sessionVars, pending_receive, lock, logging_out, unhandled_callbacks,
                   envVars, sreq, pkt, after_send, exc, delivered>>

\* _handle_rpc_result after _send_acknowledges returned: the error is stored
\* on the request, if one was found, and its completion is set.
HandleRpcResultError ==
    /\ pc[Receiver] = "rx_err"
    /\ IF cur.req # NoRequest
       THEN /\ error' = [error EXCEPT ![cur.req] = cur.err]
            /\ confirm_received' = [confirm_received EXCEPT ![cur.req] = TRUE]
       ELSE UNCHANGED <<error, confirm_received>>
    /\ cur' = NoCur
    /\ Return(todo)
    /\ UNCHANGED <<bgVars, sessionVars, senderVars, request_msg_id, response, envVars,
                   sreq, pkt, after_ack, after_send, exc, rpos, log, delivered>>

\* _handle_pong: reads the code and the echoed msg-id.
HandlePong ==
    /\ Dispatching("pong")
    /\ LET request == FindPending(Msg.body.req)
       IN  /\ confirm_received' =
                 IF request # NoRequest
                 THEN [confirm_received EXCEPT ![request] = TRUE]
                 ELSE confirm_received
           /\ log' = Logged("True", request)
    /\ need_confirmation' = Confirm(Msg.msg_id)
    /\ Return(Tail(todo))
    /\ rpos' = ReaderAfter("True", 4 + 8)
    /\ UNCHANGED <<bgVars, sessionVars, pending_receive, lock, logging_out, unhandled_callbacks,
                   request_msg_id, response, error, envVars,
                   sreq, pkt, after_ack, after_send, exc, cur, delivered>>

\* _handle_container: the inner messages are dispatched in order, each under
\* its own msg-id.
HandleContainer ==
    /\ Dispatching("msg_container")
    /\ LET bs == Msg.body.sub
           n == Len(bs)
           items == [i \in 1..n |->
                        [msg_id |-> InnerMsgId(Msg.msg_id, n, i), body |-> bs[i],
                         ctx |-> "item", begin |-> BeginOf(bs, i),
                         len |-> BodyLen(bs[i])]]
       IN  Return(items \o Tail(todo))
    /\ need_confirmation' = Confirm(Msg.msg_id)
    /\ rpos' = 4 + 4
    /\ log' = Logged("True", NoRequest)
    /\ UNCHANGED <<bgVars, sessionVars, pending_receive, lock, logging_out, unhandled_callbacks,
                   requestVars, envVars, sreq, pkt, after_ack, after_send, exc,
                   cur, delivered>>

\* _handle_gzip_packed: the unpacked content goes through _process_msg again
\* under the same msg-id, read from a reader of its own.
HandleGzipPacked ==
    /\ Dispatching("gzip_packed")
    /\ Return(<<[msg_id |-> Msg.msg_id, body |-> Msg.body.sub[1],
                 ctx |-> IF Msg.ctx = "item" THEN "gzitem" ELSE "gztop",
                 begin |-> Msg.begin, len |-> Msg.len]>> \o Tail(todo))
    /\ need_confirmation' = Confirm(Msg.msg_id)
    /\ rpos' = ReaderAfter("True", Msg.len)
    /\ log' = Logged("True", NoRequest)
    /\ UNCHANGED <<bgVars, sessionVars, pending_receive, lock, logging_out, unhandled_callbacks,
                   requestVars, envVars, sreq, pkt, after_ack, after_send, exc,
                   cur, delivered>>

\* _handle_bad_server_salt: the session takes the new salt and the request
\* the notification names, if it is pending, is passed to send() again.
HandleBadServerSalt ==
    /\ Dispatching("bad_server_salt")
    /\ salt' = NewSalt
    /\ need_confirmation' = Confirm(Msg.msg_id)
    /\ todo' = Tail(todo)
    /\ LET request == FindPending(Msg.body.req)
           back == IF Tail(todo) = <<>> THEN "idle" ELSE "rx_proc"
       IN  IF request # NoRequest
           THEN /\ sreq' = [sreq EXCEPT ![Receiver] = request]
                /\ after_send' = [after_send EXCEPT ![Receiver] = back]
                /\ pc' = [pc EXCEPT ![Receiver] = "s_lock"]
           ELSE /\ pc' = [pc EXCEPT ![Receiver] = back]
                /\ UNCHANGED <<sreq, after_send>>
    /\ rpos' = ReaderAfter("True", Msg.len)
    /\ log' = Logged("True", FindPending(Msg.body.req))
    /\ UNCHANGED <<bgVars, time_offset, last_msg_id, sequence, saved, pending_receive, lock,
                   logging_out, unhandled_callbacks, requestVars, envVars,
                   pkt, after_ack, exc, cur, delivered>>

\* Mutant of Recoverable: every code from 16 on is taken for a clock error.
RecoverableFrom16(error_code) == error_code >= 16

\* error_code in (16, 17)
Recoverable(error_code) == error_code \in {16, 17}

\* The msg-id of the frame the current receive() read.
OuterMsgId == IF log = <<>> THEN Msg.msg_id ELSE log[1].msg_id

\* Mutant of CorrectMsgId: the container hands its own msg-id down.
CorrectMsgIdOuter == OuterMsgId

\* The msg-id _handle_bad_msg_notification passes to update_time_offset:
\* its own msg_id argument, which _handle_container sets to inner_msg_id.
CorrectMsgId == Msg.msg_id

\* _handle_bad_msg_notification: msg-id too low or too high is answered by
\* update_time_offset(correct_msg_id=msg_id) (which also forgets
\* last_msg_id) and session.save(); any other code is raised.
HandleBadMsgNotification ==
    /\ Dispatching("bad_msg_notification")
    /\ need_confirmation' = Confirm(Msg.msg_id)
    /\ rpos' = ReaderAfter(IF Recoverable(Msg.body.x) THEN "True" ELSE "raise", Msg.len)
    /\ IF Recoverable(Msg.body.x)
       THEN /\ time_offset' = TimeOffsetFor(CorrectMsgId)
            /\ last_msg_id' = 0
            /\ saved' = saved + 1
            /\ Return(Tail(todo))
            /\ log' = Logged("True", NoRequest)
            /\ UNCHANGED <<lock, exc, pkt, cur>>
       ELSE /\ Raise(Receiver, [type |-> "BadMessageError", code |-> Msg.body.x])
            /\ log' = Logged("raise", NoRequest)
            /\ UNCHANGED <<time_offset, last_msg_id, saved>>
    /\ UNCHANGED <<bgVars, salt, sequence, pending_receive, logging_out, unhandled_callbacks,
                   requestVars, envVars, sreq, after_ack, after_send, delivered>>

\* for r in self._pending_receive: if r.request_msg_id in ack.msg_ids
Acknowledged(r) ==
    r \in Range(pending_receive) /\ request_msg_id[r] = Msg.body.req

\* Mutant of MarksComplete: logging_out is not tested.
MarksCompleteAlways(r) == Acknowledged(r)

\* The msgs_ack being dispatched sets r.confirm_received.
MarksComplete(r) == Acknowledged(r) /\ logging_out

\* _process_msg, msgs_ack: while logging out, an acknowledged pending
\* request counts as answered.
ProcessMsgsAck ==
    /\ Dispatching("msgs_ack")
    /\ confirm_received' =
          [r \in Requests |->
              IF MarksComplete(r) THEN TRUE ELSE confirm_received[r]]
    /\ need_confirmation' = Confirm(Msg.msg_id)
    /\ Return(Tail(todo))
    /\ rpos' = ReaderAfter("True", Msg.len)
    /\ log' = Logged("True", NoRequest)
    /\ UNCHANGED <<bgVars, sessionVars, pending_receive, lock, logging_out, unhandled_callbacks,
                   request_msg_id, response, error, envVars,
                   sreq, pkt, after_ack, after_send, exc, cur, delivered>>

\* _process_msg, a constructor of the type library: the object is read and
\* passed to the unhandled callbacks, if there are any.
ProcessTLObject ==
    /\ Dispatching("tlobject")
    /\ delivered' = IF unhandled_callbacks THEN Append(delivered, Msg.msg_id)
                    ELSE delivered
    /\ need_confirmation' = Confirm(Msg.msg_id)
    /\ Return(Tail(todo))
    /\ rpos' = ReaderAfter("True", Msg.len)
    /\ log' = Logged("True", NoRequest)
    /\ UNCHANGED <<bgVars, sessionVars, pending_receive, lock, logging_out, unhandled_callbacks,
                   requestVars, envVars, sreq, pkt, after_ack, after_send, exc, cur>>

\* Mutant of ProcessUnknown: the constructor is not looked up in the type
\* library, the message is handed to the callbacks like a known object.
ProcessUnknownDelivers ==
    /\ Dispatching("unknown")
    /\ delivered' = IF unhandled_callbacks THEN Append(delivered, Msg.msg_id)
                    ELSE delivered
    /\ need_confirmation' = Confirm(Msg.msg_id)
    /\ Return(Tail(todo))
    /\ rpos' = ReaderAfter("True", Msg.len)
    /\ log' = Logged("True", NoRequest)
    /\ UNCHANGED <<bgVars, sessionVars, pending_receive, lock, logging_out,
                   unhandled_callbacks, requestVars, envVars, sreq, pkt, after_ack,
                   after_send, exc, cur>>

\* _process_msg, any other constructor: logged, nothing read, False.
ProcessUnknown ==
    /\ Dispatching("unknown")
    /\ need_confirmation' = Confirm(Msg.msg_id)
    /\ Return(Tail(todo))
    /\ rpos' = ReaderAfter("False", 0)
    /\ log' = Logged("False", NoRequest)
    /\ UNCHANGED <<bgVars, sessionVars, pending_receive, lock, logging_out, unhandled_callbacks,
                   requestVars, envVars, sreq, pkt, after_ack, after_send, exc,
                   cur, delivered>>

\* ------------------------------------------------------------ environment
\* disconnect(): closes the connection if it is open and, with
\* constant_read, forgets the thread.  A connection.recv() that is blocked
\* on the connection being closed will raise.
Disconnect ==
    /\ connected
    /\ connected' = FALSE
    /\ recv_thread' = IF constant_read THEN NoThread ELSE recv_thread
    /\ bg' = [t \in Tasks |-> IF bg[t] = "recv" THEN "closed" ELSE bg[t]]
    /\ UNCHANGED <<constant_read, task_exc, sessionVars, senderVars, requestVars, wire, now, srv_t, frames,
                   threadVars, rxVars>>

\* connect(): opens the connection if it is closed and, with
\* constant_read, starts a new thread running _recv_thread_impl.
Connect ==
    /\ ~connected
    /\ connected' = TRUE
    /\ IF constant_read
       THEN \E t \in Tasks :
              /\ bg[t] = "unborn"
              /\ t = "t1" \/ bg["t1"] # "unborn"
              /\ bg' = [bg EXCEPT ![t] = "loop"]
              /\ recv_thread' = t
       ELSE UNCHANGED <<bg, recv_thread>>
    /\ UNCHANGED <<constant_read, task_exc, sessionVars, senderVars, requestVars,
                   wire, now, srv_t, frames, threadVars, rxVars>>

\* _recv_thread_impl: while self.is_connected().
TaskCheck(t) ==
    /\ bg[t] = "loop"
    /\ bg' = [bg EXCEPT ![t] = IF connected THEN "recv" ELSE "exited"]
    /\ task_exc' = [task_exc EXCEPT ![t] = NoExc]
    /\ UNCHANGED <<constant_read, recv_thread, sessionVars, senderVars, requestVars,
                   envVars, threadVars, rxVars>>

\* _recv_thread_impl: connection.recv() inside receive() raises
\* TimeoutError, which the loop catches.
TaskTimeout(t) ==
    /\ bg[t] = "recv"
    /\ bg' = [bg EXCEPT ![t] = "loop"]
    /\ task_exc' = [task_exc EXCEPT ![t] = [type |-> "TimeoutError", code |-> 0]]
    /\ UNCHANGED <<constant_read, recv_thread, sessionVars, senderVars, requestVars,
                   envVars, threadVars, rxVars>>

\* _recv_thread_impl: connection.recv() returns a body of fewer than
\* MinBodyLen bytes; _decode_msg raises BufferError, which nothing catches:
\* the thread ends.
TaskTruncated(t) ==
    /\ bg[t] = "recv"
    /\ \E n \in 0..(MinBodyLen - 1) :
          /\ n < MinBodyLen
          /\ bg' = [bg EXCEPT ![t] = "raised"]
          /\ task_exc' = [task_exc EXCEPT ![t] = [type |-> "BufferError", code |-> n]]
    /\ UNCHANGED <<constant_read, recv_thread, sessionVars, senderVars, requestVars,
                   envVars, threadVars, rxVars>>

\* _recv_thread_impl: the connection.recv() that was blocked when the
\* connection was closed raises; the error is no TimeoutError and ends the
\* thread.
TaskClosed(t) ==
    /\ bg[t] = "closed"
    /\ bg' = [bg EXCEPT ![t] = "raised"]
    /\ task_exc' = [task_exc EXCEPT ![t] = [type |-> "ConnectionError", code |-> 0]]
    /\ UNCHANGED <<constant_read, recv_thread, sessionVars, senderVars, requestVars,
                   envVars, threadVars, rxVars>>

\* _recv_thread_impl: receive() is through with its frame; the loop goes on
\* if it returned and ends with the exception if it raised.
TaskReturn(t) ==
    /\ bg[t] = "run"
    /\ pc[Receiver] = "idle"
    /\ bg' = [bg EXCEPT ![t] = IF exc[Receiver] = NoExc THEN "loop" ELSE "raised"]
    /\ task_exc' = [task_exc EXCEPT ![t] = exc[Receiver]]
    /\ UNCHANGED <<constant_read, recv_thread, sessionVars, senderVars, requestVars,
                   envVars, threadVars, rxVars>>

\* The owner of the sender sets logging_out before it sends its log-out
\* request.
LogOut ==
    /\ ~logging_out
    /\ logging_out' = TRUE
    /\ UNCHANGED <<bgVars, sessionVars, need_confirmation, pending_receive, lock,
                   unhandled_callbacks, requestVars, envVars, threadVars, rxVars>>

\* The client clock advances.
Tick ==
    /\ now < MaxNow
    /\ now' = now + 1
    /\ UNCHANGED <<bgVars, sessionVars, senderVars, requestVars, connected, wire, srv_t, frames,
                   threadVars, rxVars>>

\* ------------------------------------------------------------ specifications
\* The steps of send() and _send_acknowledges, for the thread running them.
SendStep(t) ==
    \/ SendAcquire(t)
    \/ SendAcknowledgesBuild(t)
    \/ SendAcknowledgesWrite(t)
    \/ SendAcknowledgesClear(t)
    \/ SendPacketBuild(t)
    \/ SendPacketWrite(t)
    \/ SendAppend(t)
    \/ SendSaveRelease(t)

\* The handlers receive() dispatches to.
Handle ==
    \/ HandleRpcResult
    \/ HandleRpcResultError
    \/ HandlePong
    \/ HandleContainer
    \/ HandleGzipPacked
    \/ HandleBadServerSalt
    \/ HandleBadMsgNotification
    \/ ProcessMsgsAck
    \/ ProcessTLObject
    \/ ProcessUnknown

\* The application issues its requests one after the other, r1 first.
InTurn(c) ==
    /\ \A d \in Callers : pc[d] = "idle"
    /\ c = "c1" \/ sreq["c1"] # NoRequest

\* The sending thread and the receiving thread run in parallel, within one
\* second of the client clock.
Next ==
    \/ \E c \in Callers : InTurn(c) /\ Call(c)
    \/ \E t \in Threads : SendStep(t)
    \/ Receive(ConcFrames, MaxFrames)
    \/ Handle

Init == InitWith(TRUE) /\ ManualRead

Spec == Init /\ [][Next]_vars

\* One thread calls send() and receive() one after the other: no call
\* starts, and the environment does not move, while another call runs.
Quiet == \A t \in Threads : pc[t] = "idle"

NextSeq ==
    \/ \E c \in Callers : Quiet /\ InTurn(c) /\ Call(c)
    \/ \E t \in Threads : SendStep(t)
    \/ Quiet /\ Receive(SeqFrames, MaxSeqFrames)
    \/ Handle
    \/ Quiet /\ Disconnect
    \/ Quiet /\ Tick

InitSeq == \E callbacks \in BOOLEAN : InitWith(callbacks) /\ ManualRead

SpecSeq == InitSeq /\ [][NextSeq]_vars

\* Several threads call send() at the same time; receive() is called only
\* while no send() is running, and no send() starts while it runs.  The
\* connection may be closed, and the clock may advance, at any moment.
SendFrames == {MsgsAckOf(r) : r \in EchoIds} \cup {TLObject}

NoSendRunning == \A c \in Callers : pc[c] = "idle"

HandleSend ==
    \/ ProcessTLObject
    \/ ProcessMsgsAck

NextSend ==
    \/ \E c \in Callers : pc[Receiver] = "idle" /\ Call(c)
    \/ \E t \in Threads : SendStep(t)
    \/ NoSendRunning /\ Receive(SendFrames, MaxFrames)
    \/ HandleSend
    \/ Quiet /\ LogOut
    \/ Disconnect
    \/ Tick

SpecSend == Init /\ [][NextSend]_vars

\* Background reading: the threads of _recv_thread_impl call receive(), the
\* application calls disconnect() and connect().
BgFrames == {TLObject, UnknownObject, BadMsgNotification(16), BadMsgNotification(32)}

TaskStep(t) ==
    \/ TaskCheck(t)
    \/ TaskTimeout(t)
    \/ TaskTruncated(t)
    \/ TaskClosed(t)
    \/ TaskReturn(t)

HandleBg ==
    \/ ProcessTLObject
    \/ ProcessUnknown
    \/ HandleBadMsgNotification

NextBg ==
    \/ \E t \in Tasks : TaskStep(t)
    \/ Receive(BgFrames, MaxFrames)
    \/ HandleBg
    \/ Disconnect
    \/ Connect

InitBg == InitWith(TRUE) /\ BackgroundRead

SpecBg == InitBg /\ [][NextBg]_vars

\* Every thread gets to run, and every connection.recv() returns or times
\* out.
FairBg == \A t \in Tasks : WF_vars(TaskStep(t)) /\ WF_vars(HandleBg)

SpecBgFair == SpecBg /\ FairBg

\* ------------------------------------------------------------ claims
\* Shorthands over the record of the current (or last) receive().
ReceiveReturned == pc[Receiver] = "idle" /\ log # <<>> /\ exc[Receiver] = NoExc
ReceiveEnded == pc[Receiver] = "idle" /\ log # <<>>

\* The step taken is the handler of the message _process_msg was called with.
HandlerStep == log' # log

\* The ack frames handed to the transport since the last frame was read.
AcksSinceFrame == {i \in DOMAIN wire : wire[i].kind = "ack" /\ wire[i].nth = frames}

\* C1: the frames handed to connection.send carry strictly increasing
\* msg-ids in the order they are handed over, whichever thread sends them.
C1_WireMsgIdsIncrease ==
    \A i, j \in DOMAIN wire : i < j => wire[i].msg_id < wire[j].msg_id

\* C2: a reply (rpc_result or pong) to a request whose frame is on the wire
\* is never looked up while send() still has to append the request: no
\* handler misses a request that a thread is about to append.
C2_ReplyNeverBeforeAppend ==
    \A i \in DOMAIN log :
        (/\ log[i].k \in {"rpc_result", "pong"}
         /\ \E t \in Threads :
                /\ pc[t] = "s_append"
                /\ request_msg_id[sreq[t]] = log[i].req)
        => log[i].found # NoRequest

\* The first request frame handed to the transport after the last frame was
\* read: the next send() after that receive() started (0 if there is none).
NextSendFrame ==
    LET js == {j \in DOMAIN wire : wire[j].kind = "req" /\ wire[j].nth = frames}
    IN  IF js = {} THEN 0 ELSE CHOOSE j \in js : \A i \in js : j <= i

\* C3: once receive() has dispatched a frame that is not a msgs_ack, with
\* msg-id M, and the next send() has returned, that send() has transmitted,
\* right in front of its request, a msgs_ack holding M exactly once, and the
\* ack queue is empty.
C3_NextSendAcksOnce ==
    (/\ \A t \in Threads : pc[t] = "idle"
     /\ ReceiveReturned
     /\ log[1].k # "msgs_ack"
     /\ NextSendFrame # 0
     /\ NextSendFrame = Len(wire))
    => /\ NextSendFrame > 1
       /\ wire[NextSendFrame - 1].kind = "ack"
       /\ wire[NextSendFrame - 1].by = wire[NextSendFrame].by
       /\ Count(wire[NextSendFrame - 1].ids, log[1].msg_id) = 1
       /\ need_confirmation = <<>>

\* C4: once receive() has returned after dispatching a terminal reply
\* (rpc_result with a result or an rpc_error, or pong) for a pending request
\* R, R's completion is set and R is not in the pending table.
C4_TerminalReplyRemoves ==
    ReceiveReturned =>
        \A i \in DOMAIN log :
            (log[i].k \in {"rpc_result", "pong"} /\ log[i].found # NoRequest)
            => /\ confirm_received[log[i].found]
               /\ log[i].found \notin Range(pending_receive)

\* C5: after disconnect() the pending table is empty and every request a
\* send() had put there has its completion released.
C5_DisconnectReleasesPending ==
    ~connected =>
        /\ pending_receive = <<>>
        /\ \A c \in Callers :
              (sreq[c] # NoRequest /\ pc[c] = "idle" /\ exc[c] = NoExc)
              => confirm_received[sreq[c]]

\* C6: when receive() is through with a container [A, B, C] whose B raised
\* or had an unknown constructor, the handlers of A and of C were entered,
\* A's before C's.
C6_ContainerSkipsOnlyB ==
    (/\ ReceiveEnded
     /\ Len(log) >= 3
     /\ log[1].k = "msg_container"
     /\ log[3].ctx = "item"
     /\ log[3].ret = "raise" \/ log[3].k = "unknown")
    => /\ log[2].ctx = "item"
       /\ log[2].msg_id = InnerMsgId(log[1].msg_id, 3, 1)
       /\ Len(log) >= 4
       /\ log[4].ctx = "item"
       /\ log[4].msg_id = InnerMsgId(log[1].msg_id, 3, 3)

\* The frames handed to the transport by receive() itself since it read the
\* last frame, that carry request r.
Resent(r) ==
    {j \in DOMAIN wire : /\ wire[j].kind = "req" /\ wire[j].by = Receiver
                         /\ wire[j].nth = frames /\ wire[j].req = r}

\* C7: once receive() has returned after dispatching bad_server_salt with
\* salt S for the msg-id of a pending request R: session.salt is S, R went
\* out again in a frame built with S under a msg-id greater than the one
\* echoed, and the pending table holds R exactly once and nothing under the
\* echoed msg-id.
C7_BadSaltReplacesEntry ==
    (/\ ReceiveReturned
     /\ log[1].k = "bad_server_salt"
     /\ log[1].found # NoRequest)
    => /\ salt = NewSalt
       /\ \E j \in Resent(log[1].found) :
             /\ wire[j].salt = NewSalt
             /\ wire[j].msg_id > log[1].req
             /\ wire[j].msg_id = request_msg_id[log[1].found]
       /\ Count(pending_receive, log[1].found) = 1
       /\ FindPending(log[1].req) = NoRequest

\* C8: once receive() has returned after dispatching rpc_result with an
\* rpc_error for a pending request R: R.error is the translated error and
\* R's completion is set, an ack frame holding the rpc_result's msg-id was
\* handed to the transport during that receive(), and the ack queue is empty
\* (so the next send() has nothing of it to acknowledge).
C8_RpcErrorAckedAtOnce ==
    (/\ ReceiveReturned
     /\ log[1].k = "rpc_result"
     /\ log[1].x \notin {0, 1}
     /\ log[1].found # NoRequest)
    => /\ error[log[1].found] = RpcMessageToError(log[1].x, RpcErrorMessage(log[1].x))
       /\ confirm_received[log[1].found]
       /\ \E i \in AcksSinceFrame : log[1].msg_id \in Range(wire[i].ids)
       /\ need_confirmation = <<>>

\* The handler of a bad_msg_notification with error_code 16 or 17 runs.
ClockErrorStep ==
    Dispatching("bad_msg_notification") /\ Msg.body.x \in {16, 17} /\ HandlerStep

\* The handler of a bad_msg_notification with any other error_code runs.
OtherBadMsgStep ==
    Dispatching("bad_msg_notification") /\ Msg.body.x \notin {16, 17} /\ HandlerStep

\* C9 as stated: a bad_msg_notification with error_code 16 or 17, at the top
\* of a frame or inside a container, sets time_offset from the msg-id of the
\* frame that carried it, saves the session and raises nothing.
C9_RecalibratesFromFrame ==
    [][ClockErrorStep =>
          /\ time_offset' = (OuterMsgId \div 4) - now
          /\ saved' = saved + 1
          /\ exc'[Receiver] = NoExc]_vars

\* C9 as amended: the handler sets time_offset from the msg-id it is called
\* with (the frame's at the top level and under gzip_packed, the inner
\* message's own inside a container), saves the session and raises nothing:
\* receive() goes on with the next inner message, or returns.
C9_RecalibratesFromOwnMsgId ==
    [][ClockErrorStep =>
          /\ time_offset' = (Msg.msg_id \div 4) - now
          /\ saved' = saved + 1
          /\ exc'[Receiver] = NoExc
          /\ todo' = Tail(todo)
          /\ pc'[Receiver] = IF Tail(todo) = <<>> THEN "idle" ELSE "rx_proc"]_vars

\* An inner message of a container recalibrated the clock, to an offset the
\* container's own msg-id would not have given.
C9_Witness ==
    \E i \in DOMAIN log :
        /\ log[i].k = "bad_msg_notification"
        /\ log[i].ctx = "item"
        /\ log[i].ret = "True"
        /\ saved > 0
        /\ time_offset = (log[i].msg_id \div 4) - now
        /\ time_offset # (log[1].msg_id \div 4) - now

\* C10: a bad_msg_notification with an error_code other than 16 and 17 ends
\* receive() with BadMessageError(error_code), and leaves time_offset, salt
\* and the pending table as they were, without saving the session.
C10_OtherCodesRaise ==
    [][OtherBadMsgStep =>
          /\ exc'[Receiver] = [type |-> "BadMessageError", code |-> Msg.body.x]
          /\ pc'[Receiver] = "idle"
          /\ todo' = <<>>
          /\ time_offset' = time_offset
          /\ salt' = salt
          /\ pending_receive' = pending_receive
          /\ saved' = saved]_vars

\* receive() of a container ended with BadMessageError(32) while a request
\* was pending.
C10_Witness ==
    /\ pc[Receiver] = "idle"
    /\ exc[Receiver] = [type |-> "BadMessageError", code |-> 32]
    /\ log # <<>>
    /\ log[1].k = "msg_container"
    /\ log[Len(log)].ret = "raise"
    /\ pending_receive # <<>>

\* The threads of _recv_thread_impl that have been started and have not
\* ended.
Alive == {t \in Tasks : bg[t] \in {"loop", "recv", "closed", "run"}}

\* C11: with constant_read, a receive() that ends with the transport's
\* TimeoutError or with the error of a body too short to decode does not
\* end the thread: it is back at the head of its loop, from where it reads
\* the next frame while the connection is open.
C11_LoopSurvivesBadFrame ==
    [][\A t \in Tasks :
          (bg[t] = "recv" /\ task_exc'[t].type \in {"TimeoutError", "BufferError"})
          => bg'[t] = "loop"]_vars

\* The thread that takes the step: the one whose position changes, or the
\* receiver going from one inner message to the next.
Stepper ==
    IF \E t \in Threads : pc'[t] # pc[t]
    THEN CHOOSE t \in Threads : pc'[t] # pc[t]
    ELSE Receiver

\* The step changes the ack queue, the pending table, or the session's
\* salt, time offset, msg-id or sequence counter.
SharedMutation ==
    \/ need_confirmation' # need_confirmation
    \/ pending_receive' # pending_receive
    \/ salt' # salt
    \/ time_offset' # time_offset
    \/ last_msg_id' # last_msg_id
    \/ sequence' # sequence

\* C12: every step that changes the ack queue, the pending table or the
\* session is taken by the thread that holds self._lock, in receive() as in
\* send().
C12_MutationsUnderLock ==
    [][SharedMutation => lock.owner = Stepper]_vars

\* send() of caller c has returned without an exception.
SendReturned(c) == pc[c] = "idle" /\ sreq[c] # NoRequest /\ exc[c] = NoExc

\* C13: with send() called from several threads at once and no receive()
\* running meanwhile, the frames handed to the transport carry strictly
\* increasing msg-ids in the order they are handed over, the frames of one
\* send() (its ack frame and its request frame) are not separated by a
\* frame of another, and a send() that has returned has handed over one
\* frame for its request and left the request in the pending table.
C13_SendsSerialize ==
    /\ \A i, j \in DOMAIN wire : i < j => wire[i].msg_id < wire[j].msg_id
    /\ \A i, j, k \in DOMAIN wire :
          (i < j /\ j < k /\ wire[i].by = wire[k].by) => wire[j].by = wire[i].by
    /\ \A c \in Callers :
          SendReturned(c) =>
             /\ Cardinality({i \in DOMAIN wire : wire[i].kind = "req"
                                /\ wire[i].req = sreq[c] /\ wire[i].by = c}) = 1
             /\ sreq[c] \in Range(pending_receive)

\* Both callers' send() have returned; the transport holds an ack frame and
\* the two request frames, written by different threads.
C13_Witness ==
    /\ \A c \in Callers : SendReturned(c)
    /\ Len(wire) = 3
    /\ wire[1].kind = "ack"
    /\ wire[2].kind = "req" /\ wire[3].kind = "req"
    /\ wire[2].by # wire[3].by
    /\ Range(pending_receive) = Requests

\* Thread t, inside send(), takes the step of _send_acknowledges that tests
\* the ack queue.
AckTestStep(t) == pc[t] = "ack" /\ after_ack[t] = "s_req" /\ pc'[t] # "ack"

\* The ack frames thread t handed to the transport in front of the frame
\* at position i, within the same send().
AcksBefore(i) ==
    {j \in DOMAIN wire : /\ j < i
                         /\ wire[j].kind = "ack"
                         /\ wire[j].by = wire[i].by
                         /\ wire[j].nth = wire[i].nth}

\* C14: a send() that finds the ack queue non-empty builds one msgs_ack
\* frame over the queue, stamped with an even sequence number and without
\* advancing the sequence counter, hands it to the transport right before
\* the request's frame, and goes on to the request without touching the
\* pending table; a send() that finds the queue empty hands over no ack
\* frame.  No msgs_ack is ever in the pending table.
C14_OneAckFrameBeforeRequest ==
    /\ [][\A t \in Threads :
            /\ (AckTestStep(t) /\ need_confirmation # <<>>) =>
                  /\ pc'[t] = "ack_write"
                  /\ pkt'[t].kind = "ack"
                  /\ pkt'[t].ids = need_confirmation
                  /\ pkt'[t].seq % 2 = 0
                  /\ sequence' = sequence
                  /\ pending_receive' = pending_receive
            /\ (AckTestStep(t) /\ need_confirmation = <<>>) =>
                  /\ pc'[t] = "s_req"
                  /\ pkt'[t] = NoPkt
                  /\ wire' = wire
            /\ (pc[t] = "ack_write" /\ pc'[t] = "ack_del") =>
                  /\ wire' = Append(wire, pkt[t])
                  /\ pending_receive' = pending_receive
            /\ (pc[t] = "ack_del" /\ after_ack[t] = "s_req" /\ pc'[t] # "ack_del") =>
                  /\ pc'[t] = "s_req"
                  /\ wire' = wire
                  /\ pending_receive' = pending_receive]_vars
    /\ [](\A i \in DOMAIN wire :
            /\ wire[i].kind = "ack" => wire[i].seq % 2 = 0 /\ wire[i].req = NoRequest
            /\ wire[i].kind = "req" => AcksBefore(i) \in {{}, {i - 1}})
    /\ [](Range(pending_receive) \subseteq Requests)

\* A frame was read, and the send() after it has handed over one ack frame
\* with sequence number 0 followed by the frame of the content-related
\* request with sequence number 1; only the request is pending.
C14_Witness ==
    /\ Quiet
    /\ Len(wire) = 2
    /\ wire[1].kind = "ack" /\ wire[1].seq = 0 /\ wire[1].ids # <<>>
    /\ wire[2].kind = "req" /\ wire[2].seq = 1 /\ wire[2].by = wire[1].by
    /\ pending_receive = <<"r1">>
    /\ need_confirmation = <<>>

\* disconnect() has been called since thread t was started, and t has not
\* ended: connect() makes t the _recv_thread, disconnect() forgets it.
Disowned(t) == t \in Alive /\ recv_thread # t

\* C15: with constant_read, once disconnect() has been called every thread
\* of _recv_thread_impl that was running ends (its loop sees the closed
\* connection, or its connection.recv() raises), also when connect() is
\* called again before the thread has tested is_connected().
C15_TaskExitsAfterDisconnect ==
    \A t \in Tasks : Disowned(t) ~> (t \notin Alive)

\* The threads that are inside receive() on the open connection: blocked
\* in connection.recv(), or dispatching the frame it returned.
InReceive == {t \in Tasks : bg[t] \in {"recv", "run"}}

\* C19: with constant_read, whatever connect() and disconnect() calls were
\* made, at most one thread of _recv_thread_impl is inside receive().
C19_AtMostOneTask == Cardinality(InReceive) <= 1

\* _handle_rpc_result is entered for an inner message of a container whose
\* request id no pending request carries.
LostResultStep ==
    /\ Dispatching("rpc_result")
    /\ Msg.ctx = "item"
    /\ FindPending(Msg.body.req) = NoRequest
    /\ HandlerStep

\* _handle_rpc_result, having acknowledged an rpc_error nobody waits for,
\* returns to the container.
LostErrorReturnStep ==
    /\ pc[Receiver] = "rx_err"
    /\ cur.req = NoRequest
    /\ pc'[Receiver] # "rx_err"

\* The log entries of inner rpc_results that found no pending request and
\* are not the container's last inner message.
LostResultsInside ==
    {i \in DOMAIN log : /\ log[i].k = "rpc_result"
                        /\ log[i].ctx = "item"
                        /\ log[i].found = NoRequest
                        /\ log[i].msg_id < log[1].msg_id - 4}

\* C16: an rpc_result inside a container that matches no pending request
\* changes no request's response, error or completion and raises nothing;
\* the reader ends up inner_length behind the message's begin, which is
\* where the next inner message's header starts, and the inner messages
\* after it are still dispatched.
C16_LostResultSkipped ==
    /\ [][LostResultStep =>
            /\ requestVars' = requestVars
            /\ exc'[Receiver] = NoExc
            /\ rpos' = Msg.begin + Msg.len
            /\ todo' = Tail(todo)
            /\ pc'[Receiver] # "idle" \/ todo' = <<>>
            /\ \A m \in Range(todo') : m.ctx = "item" =>
                  m.begin >= rpos' + 8 + 4 + 4]_vars
    /\ [][LostErrorReturnStep =>
            /\ requestVars' = requestVars
            /\ exc'[Receiver] = NoExc
            /\ todo' = todo
            /\ pc'[Receiver] = IF todo = <<>> THEN "idle" ELSE "rx_proc"]_vars
    /\ []((ReceiveEnded /\ log[1].k = "msg_container") =>
            \A i \in LostResultsInside :
                \E j \in DOMAIN log : /\ j > i
                                      /\ log[j].ctx = "item"
                                      /\ log[j].msg_id = log[i].msg_id + 4)

\* receive() has returned from a container whose second inner message was
\* an rpc_result nobody waits for and whose third was delivered to the
\* callbacks.
C16_Witness ==
    /\ ReceiveReturned
    /\ Len(log) = 4
    /\ log[1].k = "msg_container"
    /\ log[3].k = "rpc_result" /\ log[3].found = NoRequest /\ log[3].ctx = "item"
    /\ log[4].k = "tlobject" /\ log[4].ctx = "item"
    /\ log[4].msg_id \in Range(delivered)

\* _process_msg is entered for a frame whose constructor is neither handled
\* manually nor in the type library.
UnknownTopStep == Dispatching("unknown") /\ Msg.ctx = "top" /\ HandlerStep

\* C17: a frame with an unknown top-level constructor raises nothing,
\* reaches no unhandled callback and leaves the pending table, every
\* request's response, error and completion, and the session as they were;
\* receive() returns.
C17_UnknownTopLevelIgnored ==
    [][UnknownTopStep =>
          /\ exc'[Receiver] = NoExc
          /\ pc'[Receiver] = "idle"
          /\ delivered' = delivered
          /\ pending_receive' = pending_receive
          /\ requestVars' = requestVars
          /\ sessionVars' = sessionVars]_vars

\* receive() has returned from a frame with an unknown constructor, with
\* callbacks set and a request pending: nothing was delivered.
C17_Witness ==
    /\ ReceiveReturned
    /\ Len(log) = 1
    /\ log[1].k = "unknown" /\ log[1].ctx = "top" /\ log[1].ret = "False"
    /\ unhandled_callbacks
    /\ delivered = <<>>
    /\ pending_receive # <<>>
    /\ \A r \in Requests : ~confirm_received[r]

\* _process_msg is entered for a msgs_ack.
MsgsAckStep == Dispatching("msgs_ack") /\ HandlerStep

\* C18: dispatching a msgs_ack sets the completion of a request exactly
\* when the sender is logging out, the request is pending and its msg-id is
\* among the acknowledged ones; every other completion, and every response
\* and error, stays as it was.
C18_AckCompletesOnlyWhenLoggingOut ==
    [][MsgsAckStep =>
          /\ \A r \in Requests :
                confirm_received'[r] =
                   (\/ confirm_received[r]
                    \/ /\ logging_out
                       /\ r \in Range(pending_receive)
                       /\ request_msg_id[r] = Msg.body.req)
          /\ response' = response
          /\ error' = error]_vars

\* While logging out, with both requests pending, a msgs_ack for the first
\* request's msg-id was dispatched: the first request is complete, the
\* second is not.
C18_Witness ==
    /\ ReceiveReturned
    /\ log[1].k = "msgs_ack"
    /\ logging_out
    /\ Range(pending_receive) = Requests
    /\ log[1].req = request_msg_id["r1"]
    /\ confirm_received["r1"]
    /\ ~confirm_received["r2"]

\* connection.send fails under thread t: the ack frame's, or the
\* request's.
AckSendFails(t) == pc[t] = "ack_write" /\ ~connected /\ pc'[t] # pc[t]
RequestSendFails(t) == pc[t] = "s_write" /\ ~connected /\ pc'[t] # pc[t]

\* C20: when connection.send fails inside send(request), send() ends with
\* the error and the lock released, the pending table and the saved session
\* are as before and do not hold the request; the ack queue keeps its
\* entries when the ack frame failed and is empty when the request frame
\* failed.  The ack queue only ever loses entries that the last frame
\* handed to the transport carries.
C20_FailedSendLeavesNoTrace ==
    /\ [][\A t \in Callers :
            (AckSendFails(t) \/ RequestSendFails(t)) =>
               /\ pc'[t] = "idle"
               /\ exc'[t].type = "ConnectionError"
               /\ lock' = FreeLock
               /\ pending_receive' = pending_receive
               /\ sreq[t] \notin Range(pending_receive')
               /\ saved' = saved
               /\ wire' = wire
               /\ AckSendFails(t) =>
                     need_confirmation' = need_confirmation /\ need_confirmation # <<>>
               /\ RequestSendFails(t) => need_confirmation' = <<>>]_vars
    /\ [][Len(need_confirmation') < Len(need_confirmation) =>
            /\ wire # <<>>
            /\ wire[Len(wire)].kind = "ack"
            /\ wire[Len(wire)].ids = need_confirmation]_vars

\* The connection was closed between the two frames of a send(): the ack
\* frame is the last frame on the wire, send() ended with the error, the
\* ack queue is empty and the request is not pending.
C20_Witness ==
    \E c \in Callers :
        /\ pc[c] = "idle"
        /\ exc[c].type = "ConnectionError"
        /\ wire # <<>>
        /\ wire[Len(wire)].kind = "ack" /\ wire[Len(wire)].by = c
        /\ need_confirmation = <<>>
        /\ sreq[c] \notin Range(pending_receive)
        /\ lock = FreeLock

====
